---------------------------- MODULE Spec2Model ----------------------------
(***************************************************************************)
(* Model of streamlit_app.py, the stay-days calculator.                    *)
(*                                                                         *)
(* One run of the script is modelled: the per-range loop (lines 44-91),    *)
(* the annual sum (line 99), the rolling 365-day scan (lines 144-177) and  *)
(* the automatic 90/180-day checks (lines 226-243).                        *)
(*                                                                         *)
(* A calendar date is its proleptic Gregorian ordinal, as datetime.date    *)
(* keeps it: (e - s).days is the difference of the ordinals, s +           *)
(* timedelta(days=d) is s + d, and date(y, m, d) is computed from the      *)
(* calendar rules.                                                         *)
(***************************************************************************)
EXTENDS Integers, Sequences, FiniteSets

(***************************************************************************)
(* Bounds of the model and constants of the program.                       *)
(***************************************************************************)

\* Largest "Number of date ranges" tried (the widget allows 1..50).
MaxTrips == 2

\* timedelta(days=364): the largest distance between two days of one window.
WindowDays == 364

\* The per-visit limit and the rolling limit of the automatic checks.
ShortStayLimit == 90
RollingLimit == 180

(***************************************************************************)
(* datetime.date                                                           *)
(***************************************************************************)

IsLeap(y) == (y % 4 = 0) /\ ((y % 100 # 0) \/ (y % 400 = 0))

DaysBeforeYear(y) ==
    LET p == y - 1
    IN  p * 365 + (p \div 4) - (p \div 100) + (p \div 400)

DaysInMonth(y, m) ==
    IF m = 2 THEN (IF IsLeap(y) THEN 29 ELSE 28)
    ELSE IF m \in {4, 6, 9, 11} THEN 30 ELSE 31

RECURSIVE DaysBeforeMonth(_, _)
DaysBeforeMonth(y, m) ==
    IF m = 1 THEN 0 ELSE DaysBeforeMonth(y, m - 1) + DaysInMonth(y, m - 1)

\* date(y, m, d) as an ordinal.
date(y, m, d) == DaysBeforeYear(y) + DaysBeforeMonth(y, m) + d

Max(a, b) == IF a >= b THEN a ELSE b
Min(a, b) == IF a <= b THEN a ELSE b

(***************************************************************************)
(* The inputs tried.  The days lie on both sides of the two ends of 2025   *)
(* and at distances 363, 364, 365 and 366 from one another, so that ranges *)
(* cross a year boundary, and pairs of days fall just inside and just      *)
(* outside one 365-day window.                                             *)
(***************************************************************************)

BaseDay == date(2024, 12, 31)

Offsets == {0, 1, 364, 365, 366}

Dates == {BaseDay + o : o \in Offsets}

Years == {2025, 2026}

(***************************************************************************)
(* The per-range loop, lines 44-91                                         *)
(***************************************************************************)

year_start(Y) == date(Y, 1, 1)
year_end(Y) == date(Y, 12, 31)

\* Line 66 without the + 1: the last day is not counted.
stay_length_of_Exclusive(start, end) == end - start

\* Line 66 with the dates exchanged.
stay_length_of_Swapped(start, end) == (start - end) + 1

\* Line 66.
stay_length_of(start, end) == (end - start) + 1

\* Lines 73-82 without the + 1 of line 82.
days_in_year_of_Exclusive(start, end, Y) ==
    LET effective_start == Max(start, year_start(Y))
        effective_end == Min(end, year_end(Y))
    IN  IF effective_start > effective_end
        THEN 0
        ELSE effective_end - effective_start

\* Lines 73-82.
days_in_year_of(start, end, Y) ==
    LET effective_start == Max(start, year_start(Y))
        effective_end == Min(end, year_end(Y))
    IN  IF effective_start > effective_end
        THEN 0
        ELSE (effective_end - effective_start) + 1

\* The state the loop carries from one range to the next.
LoopInit ==
    [trip_data |-> <<>>, valid_intervals |-> <<>>,
     longest_single_stay |-> 0, errors |-> {}]

\* The loop's body with "if" for "if/else": a range with end < start is
\* flagged and then processed like a valid one.
LoopBody_FallThrough(st, k, start, end, Y) ==
    [st EXCEPT
        !.errors = IF end < start THEN @ \cup {k + 1} ELSE @,
        !.longest_single_stay = Max(@, stay_length_of(start, end)),
        !.valid_intervals = Append(@, <<start, end>>),
        !.trip_data = Append(@,
            [Range |-> k + 1, Original |-> <<start, end>>,
             StayLength |-> stay_length_of(start, end),
             DaysInYear |-> days_in_year_of(start, end, Y)])]

\* The loop's body without the max of line 67: the last valid range's
\* length is kept.
LoopBody_LastStay(st, k, start, end, Y) ==
    IF end < start
    THEN [st EXCEPT
            !.errors = @ \cup {k + 1},
            !.trip_data = Append(@,
                [Range |-> k + 1, Original |-> <<start, end>>,
                 StayLength |-> 0, DaysInYear |-> 0])]
    ELSE [st EXCEPT
            !.longest_single_stay = stay_length_of(start, end),
            !.valid_intervals = Append(@, <<start, end>>),
            !.trip_data = Append(@,
                [Range |-> k + 1, Original |-> <<start, end>>,
                 StayLength |-> stay_length_of(start, end),
                 DaysInYear |-> days_in_year_of(start, end, Y)])]

\* One iteration of the loop, for the range numbered k (from 0).
LoopBody(st, k, start, end, Y) ==
    IF end < start
    THEN [st EXCEPT
            !.errors = @ \cup {k + 1},
            !.trip_data = Append(@,
                [Range |-> k + 1, Original |-> <<start, end>>,
                 StayLength |-> 0, DaysInYear |-> 0])]
    ELSE [st EXCEPT
            !.longest_single_stay = Max(@, stay_length_of(start, end)),
            !.valid_intervals = Append(@, <<start, end>>),
            !.trip_data = Append(@,
                [Range |-> k + 1, Original |-> <<start, end>>,
                 StayLength |-> stay_length_of(start, end),
                 DaysInYear |-> days_in_year_of(start, end, Y)])]

\* Line 99.
RECURSIVE SumDaysInYear(_)
SumDaysInYear(rows) ==
    IF rows = <<>> THEN 0
    ELSE SumDaysInYear(SubSeq(rows, 1, Len(rows) - 1))
            + rows[Len(rows)].DaysInYear

(***************************************************************************)
(* The rolling window, lines 144-177                                       *)
(***************************************************************************)

\* Lines 152-154: the days of one interval, in order.
ExpandInterval(s, e) == [d \in 1..((e - s) + 1) |-> s + (d - 1)]

\* Lines 150-154: every day of every valid interval, duplicates kept.
RECURSIVE ExpandAll(_)
ExpandAll(intervals) ==
    IF intervals = <<>> THEN <<>>
    ELSE ExpandAll(SubSeq(intervals, 1, Len(intervals) - 1))
            \o ExpandInterval(intervals[Len(intervals)][1],
                              intervals[Len(intervals)][2])

SetOf(seq) == {seq[k] : k \in DOMAIN seq}

Occurrences(seq, d) == Cardinality({k \in DOMAIN seq : seq[k] = d})

Lowest(S) == CHOOSE d \in S : \A e \in S : d <= e
Highest(S) == CHOOSE d \in S : \A e \in S : e <= d

\* sorted(S) of a set of days, between lo and hi: the days of S in order.
RECURSIVE SortedBetween(_, _, _)
SortedBetween(S, lo, hi) ==
    IF lo > hi THEN <<>>
    ELSE IF lo = hi THEN (IF lo \in S THEN <<lo>> ELSE <<>>)
    ELSE LET mid == (lo + hi) \div 2
         IN  SortedBetween(S, lo, mid) \o SortedBetween(S, mid + 1, hi)

sorted(S) == IF S = {} THEN <<>> ELSE SortedBetween(S, Lowest(S), Highest(S))

\* sorted(seq) of a list of days, every occurrence kept.
RECURSIVE SortedListBetween(_, _, _)
SortedListBetween(seq, lo, hi) ==
    IF lo > hi THEN <<>>
    ELSE IF lo = hi THEN [k \in 1..Occurrences(seq, lo) |-> lo]
    ELSE LET mid == (lo + hi) \div 2
         IN  SortedListBetween(seq, lo, mid) \o SortedListBetween(seq, mid + 1, hi)

\* Line 156 without set(): the duplicates stay.
CollectDays_NoDedup(intervals) ==
    LET days == ExpandAll(intervals)
    IN  IF days = <<>> THEN <<>>
        ELSE SortedListBetween(days, Lowest(SetOf(days)), Highest(SetOf(days)))

\* Lines 150-156: all_days.
CollectDays(intervals) == sorted(SetOf(ExpandAll(intervals)))

\* Lines 160-164: the scan's variables before the first step.  Indices are
\* the code's, from 0; D[k + 1] is all_days[k].
ScanInit == [i |-> 0, j |-> 0, max_i |-> 0, max_j |-> 0, max_days_365 |-> 0]

\* Line 167 with < for <=: a window of 364 days.
InnerCond_Strict(D, i, j) == j < Len(D) /\ (D[j + 1] - D[i + 1]) < WindowDays

\* Line 167: the inner loop's condition.
InnerCond(D, i, j) == j < Len(D) /\ (D[j + 1] - D[i + 1]) <= WindowDays

\* Lines 167-168: the inner loop moves j to the first index, from j on, at
\* which its condition fails (at Len(D) it fails).
AdvanceJ(D, i, j) ==
    CHOOSE k \in j..Len(D) :
        /\ ~InnerCond(D, i, k)
        /\ \A m \in j..(k - 1) : InnerCond(D, i, m)

\* Lines 169-174 with >= for >: the last of the largest windows is kept.
RecordBest_LastWins(s) ==
    LET window_size == s.j - s.i
    IN  IF window_size >= s.max_days_365
        THEN [s EXCEPT !.max_days_365 = window_size,
                       !.max_i = s.i, !.max_j = s.j - 1, !.i = s.i + 1]
        ELSE [s EXCEPT !.i = s.i + 1]

\* Lines 169-174 with max_j = j: one past the window's last day.
RecordBest_PastEnd(s) ==
    LET window_size == s.j - s.i
    IN  IF window_size > s.max_days_365
        THEN [s EXCEPT !.max_days_365 = window_size,
                       !.max_i = s.i, !.max_j = s.j, !.i = s.i + 1]
        ELSE [s EXCEPT !.i = s.i + 1]

\* Lines 169-174, once the inner loop has ended.
RecordBest(s) ==
    LET window_size == s.j - s.i
    IN  IF window_size > s.max_days_365
        THEN [s EXCEPT !.max_days_365 = window_size,
                       !.max_i = s.i, !.max_j = s.j - 1, !.i = s.i + 1]
        ELSE [s EXCEPT !.i = s.i + 1]

\* Lines 167-174: one step of the outer loop.
OuterStep(D, s) == RecordBest([s EXCEPT !.j = AdvanceJ(D, s.i, s.j)])

\* Line 166 and its body: a step of the outer loop, or nothing once i = n.
GuardedStep(D, s) == IF s.i < Len(D) THEN OuterStep(D, s) ELSE s

\* GuardedStep applied k times.
RECURSIVE Iterate(_, _, _)
Iterate(D, s, k) ==
    IF k = 0 THEN s
    ELSE IF k = 1 THEN GuardedStep(D, s)
    ELSE LET half == Iterate(D, s, k \div 2)
         IN  IF half.i <= Len(D) THEN Iterate(D, half, k - (k \div 2)) ELSE half

\* Lines 166-174: the outer loop.  Every step adds one to i, so the loop
\* has ended after Len(D) steps.
ScanFrom(D, s) == Iterate(D, s, Len(D))

\* Lines 176-177, and what the run reports.  None is <<>>, a date d is <<d>>.
Report(D, s) ==
    [all_days |-> D, scan |-> s,
     max_days_365 |-> s.max_days_365,
     window_start |-> <<D[s.max_i + 1]>>,
     window_end |-> <<D[s.max_j + 1]>>]

\* Lines 158-177, for the days D.
RollingOn(D) ==
    IF D = <<>>
    THEN [all_days |-> D, scan |-> ScanInit,
          max_days_365 |-> 0, window_start |-> <<>>, window_end |-> <<>>]
    ELSE Report(D, ScanFrom(D, ScanInit))

\* Lines 144-177.
Rolling(intervals) ==
    IF intervals = <<>>
    THEN [all_days |-> <<>>, scan |-> ScanInit,
          max_days_365 |-> 0, window_start |-> <<>>, window_end |-> <<>>]
    ELSE RollingOn(CollectDays(intervals))

(***************************************************************************)
(* The loop and the whole run as functions of the inputs                   *)
(***************************************************************************)

\* Lines 40-91: the loop over the ranges rs, for the target year Y.
RECURSIVE RunLoop(_, _)
RunLoop(rs, Y) ==
    IF rs = <<>> THEN LoopInit
    ELSE LoopBody(RunLoop(SubSeq(rs, 1, Len(rs) - 1), Y),
                  Len(rs) - 1, rs[Len(rs)][1], rs[Len(rs)][2], Y)

\* What a run computes from the loop's outcome lp, lines 99-177.
Outcome(lp, roll) ==
    [trip_data |-> lp.trip_data, errors |-> lp.errors,
     total_days |-> SumDaysInYear(lp.trip_data),
     longest_single_stay |-> lp.longest_single_stay,
     max_days_365 |-> roll.max_days_365,
     window_start |-> roll.window_start, window_end |-> roll.window_end]

AfterLoop(lp) == Outcome(lp, Rolling(lp.valid_intervals))

\* Lines 40-177: the run on the ranges rs and the target year Y.
Run(rs, Y) == AfterLoop(RunLoop(rs, Y))

(***************************************************************************)
(* The automatic checks, lines 226-243                                     *)
(***************************************************************************)

\* Lines 226-233.
ShortStayCheck(longest) ==
    IF longest = 0 THEN "no valid stays"
    ELSE IF longest > ShortStayLimit THEN "exceeds" ELSE "within"

\* Lines 236-243.
RollingCheck(maxdays) ==
    IF maxdays = 0 THEN "not available"
    ELSE IF maxdays > RollingLimit THEN "exceeds" ELSE "within"

(***************************************************************************)
(* The run of the script as a state machine                                *)
(***************************************************************************)

VARIABLES
    pc,                  \* where the run is
    target_year,         \* line 27
    num_trips,           \* line 38
    ranges,              \* the (start, end) read so far, lines 48-58
    i,                   \* the ranges processed so far (the loop's next
                         \* index), then the scan's left pointer
    trip_data, valid_intervals, longest_single_stay,
    errors,              \* the ranges st.error was shown for, line 61
    total_days,          \* line 99
    all_days, j, n, max_i, max_j,
    max_days_365, window_start, window_end,
    short_stay_check, rolling_check

vars == <<pc, target_year, num_trips, ranges, i, trip_data, valid_intervals,
          longest_single_stay, errors, total_days, all_days, j, n, max_i,
          max_j, max_days_365, window_start, window_end, short_stay_check,
          rolling_check>>

loopVars == <<trip_data, valid_intervals, longest_single_stay, errors, ranges>>
scanVars == <<all_days, j, n, max_i, max_j, max_days_365, window_start, window_end>>
checkVars == <<short_stay_check, rolling_check>>

Init ==
    /\ pc = "loop"
    /\ target_year \in Years
    /\ num_trips \in 1..MaxTrips
    /\ ranges = <<>>
    /\ i = 0
    /\ trip_data = <<>>
    /\ valid_intervals = <<>>
    /\ longest_single_stay = 0
    /\ errors = {}
    /\ total_days = 0
    /\ all_days = <<>>
    /\ j = 0
    /\ n = 0
    /\ max_i = 0
    /\ max_j = 0
    /\ max_days_365 = 0
    /\ window_start = <<>>
    /\ window_end = <<>>
    /\ short_stay_check = "not run"
    /\ rolling_check = "not run"

\* Lines 44-91: one range is read and processed.
ProcessRange ==
    /\ pc = "loop"
    /\ i < num_trips
    /\ \E start \in Dates, end \in Dates :
          LET st == LoopBody(
                      [trip_data |-> trip_data,
                       valid_intervals |-> valid_intervals,
                       longest_single_stay |-> longest_single_stay,
                       errors |-> errors],
                      i, start, end, target_year)
          IN  /\ ranges' = Append(ranges, <<start, end>>)
              /\ trip_data' = st.trip_data
              /\ valid_intervals' = st.valid_intervals
              /\ longest_single_stay' = st.longest_single_stay
              /\ errors' = st.errors
    /\ i' = i + 1
    /\ UNCHANGED <<pc, target_year, num_trips, total_days>>
    /\ UNCHANGED scanVars
    /\ UNCHANGED checkVars

\* Line 99, after the last range.
Summarise ==
    /\ pc = "loop"
    /\ i = num_trips
    /\ total_days' = SumDaysInYear(trip_data)
    /\ pc' = "rolling"
    /\ UNCHANGED <<target_year, num_trips, i>>
    /\ UNCHANGED loopVars
    /\ UNCHANGED scanVars
    /\ UNCHANGED checkVars

\* Lines 144-177 in one step.
RollingWindow ==
    /\ pc = "rolling"
    /\ \E r \in {Rolling(valid_intervals)} :
           /\ all_days' = r.all_days
           /\ n' = Len(r.all_days)
           /\ i' = IF valid_intervals = <<>> THEN i ELSE r.scan.i
           /\ j' = r.scan.j
           /\ max_i' = r.scan.max_i
           /\ max_j' = r.scan.max_j
           /\ max_days_365' = r.max_days_365
           /\ window_start' = r.window_start
           /\ window_end' = r.window_end
    /\ pc' = "checks"
    /\ UNCHANGED <<target_year, num_trips, total_days>>
    /\ UNCHANGED loopVars
    /\ UNCHANGED checkVars

\* Lines 226-243.
AutoCheck ==
    /\ pc = "checks"
    /\ short_stay_check' = ShortStayCheck(longest_single_stay)
    /\ rolling_check' = RollingCheck(max_days_365)
    /\ pc' = "done"
    /\ UNCHANGED <<target_year, num_trips, i, total_days>>
    /\ UNCHANGED loopVars
    /\ UNCHANGED scanVars

Next == ProcessRange \/ Summarise \/ RollingWindow \/ AutoCheck

Spec == Init /\ [][Next]_vars

(***************************************************************************)
(* The same run with the scan taken one loop test at a time                *)
(***************************************************************************)

\* Lines 144-164: the days are collected and the scan's variables set.
Collect ==
    /\ pc = "rolling"
    /\ max_days_365' = 0
    /\ window_start' = <<>>
    /\ window_end' = <<>>
    /\ IF valid_intervals = <<>>
       THEN /\ pc' = "checks"
            /\ UNCHANGED <<all_days, i, j, n, max_i, max_j>>
       ELSE \E D \in {CollectDays(valid_intervals)} :
              /\ all_days' = D
              /\ IF D = <<>>
                 THEN /\ pc' = "checks"
                      /\ UNCHANGED <<i, j, n, max_i, max_j>>
                 ELSE /\ i' = ScanInit.i
                      /\ j' = ScanInit.j
                      /\ n' = Len(D)
                      /\ max_i' = ScanInit.max_i
                      /\ max_j' = ScanInit.max_j
                      /\ pc' = "outer"
    /\ UNCHANGED <<target_year, num_trips, total_days>>
    /\ UNCHANGED loopVars
    /\ UNCHANGED checkVars

\* Line 166: the outer loop's test holds.
OuterEnter ==
    /\ pc = "outer"
    /\ i < n
    /\ pc' = "inner"
    /\ UNCHANGED <<target_year, num_trips, i, total_days>>
    /\ UNCHANGED loopVars
    /\ UNCHANGED scanVars
    /\ UNCHANGED checkVars

\* Lines 167-168: the inner loop's test holds, j moves.
InnerStep ==
    /\ pc = "inner"
    /\ InnerCond(all_days, i, j)
    /\ j' = j + 1
    /\ UNCHANGED <<pc, target_year, num_trips, i, total_days>>
    /\ UNCHANGED <<all_days, n, max_i, max_j, max_days_365, window_start, window_end>>
    /\ UNCHANGED loopVars
    /\ UNCHANGED checkVars

\* Lines 169-174: the inner loop's test fails, the window is measured.
Record ==
    /\ pc = "inner"
    /\ ~InnerCond(all_days, i, j)
    /\ \E s \in {RecordBest([i |-> i, j |-> j, max_i |-> max_i, max_j |-> max_j,
                              max_days_365 |-> max_days_365])} :
          /\ i' = s.i
          /\ max_i' = s.max_i
          /\ max_j' = s.max_j
          /\ max_days_365' = s.max_days_365
    /\ pc' = "outer"
    /\ UNCHANGED <<target_year, num_trips, total_days>>
    /\ UNCHANGED <<all_days, j, n, window_start, window_end>>
    /\ UNCHANGED loopVars
    /\ UNCHANGED checkVars

\* Lines 176-177: the outer loop's test fails, the window is reported.
Finish ==
    /\ pc = "outer"
    /\ ~(i < n)
    /\ window_start' = <<all_days[max_i + 1]>>
    /\ window_end' = <<all_days[max_j + 1]>>
    /\ pc' = "checks"
    /\ UNCHANGED <<target_year, num_trips, i, total_days>>
    /\ UNCHANGED <<all_days, j, n, max_i, max_j, max_days_365>>
    /\ UNCHANGED loopVars
    /\ UNCHANGED checkVars

ScanNext ==
    \/ ProcessRange \/ Summarise \/ Collect \/ OuterEnter \/ InnerStep
    \/ Record \/ Finish \/ AutoCheck

ScanSpec == Init /\ [][ScanNext]_vars

(***************************************************************************)
(* What the properties are stated with                                     *)
(***************************************************************************)

\* A 365-day period (the comment of line 159).
SpanDays == 365

Valid(r) == r[1] <= r[2]

ValidIndices(rs) == {k \in DOMAIN rs : Valid(rs[k])}

\* The days lying in at least one valid range (s..e is empty when e < s).
Covered(rs) == UNION {rs[k][1]..rs[k][2] : k \in DOMAIN rs}

\* The covered days among the SpanDays consecutive days that start at a.
CountIn(S, a) == Cardinality(S \cap (a..(a + (SpanDays - 1))))

\* The most covered days any SpanDays consecutive days hold.
DensestSpan(S) ==
    IF S = {} THEN 0
    ELSE Highest({CountIn(S, a) : a \in (Lowest(S) - (SpanDays - 1))..Highest(S)})

\* The largest jj - ii + 1 over 0 <= ii <= jj < Len(D) with
\* D[jj] - D[ii] <= 364 (indices from 0; w is jj - ii + 1).
WidestPair(D) ==
    Highest({w \in 1..Len(D) :
                \E ii \in 0..(Len(D) - w) :
                    D[ii + w] - D[ii + 1] <= SpanDays - 1})

\* The width of the widest admissible window that starts at index ii (from 0).
WidestFrom(D, ii) ==
    Cardinality({jj \in ii..(Len(D) - 1) : D[jj + 1] - D[ii + 1] <= SpanDays - 1})

StrictlyIncreasing(D) == \A k \in 1..(Len(D) - 1) : D[k] < D[k + 1]

Remove(rs, k) == SubSeq(rs, 1, k - 1) \o SubSeq(rs, k + 1, Len(rs))

ExtendEnd(rs, k) == [rs EXCEPT ![k] = <<rs[k][1], rs[k][2] + 1>>]

Permutations(m) == {p \in [1..m -> 1..m] : \A a, b \in 1..m : p[a] = p[b] => a = b}

Permuted(rs, p) == [k \in 1..Len(rs) |-> rs[p[k]]]

\* The years around the days tried.
CalendarYears == 2023..2028

RECURSIVE SumOverYears(_, _, _)
SumOverYears(start, end, ys) ==
    IF ys = {} THEN 0
    ELSE LET y == Lowest(ys)
         IN  days_in_year_of(start, end, y) + SumOverYears(start, end, ys \ {y})

YearsTouched(start, end) ==
    {y \in CalendarYears : year_start(y) <= end /\ start <= year_end(y)}

\* A row of trip_data without its number.
Result(row) == <<row.Original, row.StayLength, row.DaysInYear>>

Done == pc = "done"

(***************************************************************************)
(* The properties                                                          *)
(***************************************************************************)

\* C1: max_days_365 is the largest number of covered days (each counted
\* once) that any 365 consecutive calendar days hold, which is the largest
\* j - i + 1 with D[j] - D[i] <= 364 on the sorted days D; it is 0 when no
\* range is valid.
C1_MaxDaysIsDensestSpan ==
    Done =>
        /\ max_days_365 = DensestSpan(Covered(ranges))
        /\ (all_days # <<>> => max_days_365 = WidestPair(all_days))
        /\ (ValidIndices(ranges) = {} => max_days_365 = 0)

\* A run in which the best window leaves covered days out.
C1_Witness ==
    /\ Done
    /\ max_days_365 > 1
    /\ max_days_365 < Cardinality(Covered(ranges))

\* C2: total_days is the number of days of the target year that lie in the
\* union of the valid ranges.
C2_TotalIsUnionInYear ==
    Done =>
        total_days =
            Cardinality({d \in Covered(ranges) :
                            year_start(target_year) <= d /\ d <= year_end(target_year)})

\* C3: a range with end < start is flagged, has stay length 0 and 0 days in
\* the year, and the run's totals, longest stay, rolling maximum and window
\* are those of the list without it; the other ranges' results are the same.
C3_InvalidRangeIgnored ==
    Done =>
        \A k \in DOMAIN ranges :
            ~Valid(ranges[k]) =>
                /\ k \in errors
                /\ trip_data[k].StayLength = 0
                /\ trip_data[k].DaysInYear = 0
                /\ \A r \in {Run(Remove(ranges, k), target_year)} :
                      /\ r.total_days = total_days
                      /\ r.longest_single_stay = longest_single_stay
                      /\ r.max_days_365 = max_days_365
                      /\ r.window_start = window_start
                      /\ r.window_end = window_end
                      /\ Len(r.trip_data) = Len(trip_data) - 1
                      /\ \A m \in DOMAIN r.trip_data :
                            LET o == IF m < k THEN m ELSE m + 1
                            IN  /\ Result(r.trip_data[m]) = Result(trip_data[o])
                                /\ (m \in r.errors) = (o \in errors)

\* An invalid range comes before a valid one.
C3_Witness ==
    /\ Done
    /\ \E k, m \in DOMAIN ranges :
          k < m /\ ~Valid(ranges[k]) /\ Valid(ranges[m]) /\ trip_data[m].DaysInYear > 0

\* C4: for a valid range, days_in_year is the number of days lying both in
\* [start, end] and in [Jan 1 Y, Dec 31 Y], and the counts over the years the
\* range touches add up to its stay length (end - start) + 1.
C4_DaysInYearIsIntersection ==
    \A k \in DOMAIN trip_data :
        LET start == ranges[k][1]
            end == ranges[k][2]
        IN  Valid(ranges[k]) =>
                /\ trip_data[k].DaysInYear =
                        Cardinality((start..end)
                            \cap (year_start(target_year)..year_end(target_year)))
                /\ trip_data[k].StayLength = (end - start) + 1
                /\ SumOverYears(start, end, YearsTouched(start, end))
                        = trip_data[k].StayLength

\* A range that starts before the target year and ends in it.
C4_Witness ==
    \E k \in DOMAIN trip_data :
        /\ ranges[k][1] < year_start(target_year)
        /\ year_start(target_year) < ranges[k][2]
        /\ trip_data[k].DaysInYear > 1
        /\ trip_data[k].DaysInYear < trip_data[k].StayLength

\* C5: longest_single_stay is the largest (end - start) + 1 over the valid
\* ranges and 0 when there is none; a valid range with start = end has stay
\* length 1, so it is 0 exactly when no range is valid.
C5_LongestIsMaxStay ==
    LET lengths == {(ranges[k][2] - ranges[k][1]) + 1 : k \in ValidIndices(ranges)}
    IN  /\ longest_single_stay = (IF lengths = {} THEN 0 ELSE Highest(lengths))
        /\ \A k \in ValidIndices(ranges) :
              ranges[k][1] = ranges[k][2] => trip_data[k].StayLength = 1
        /\ (longest_single_stay = 0) = (ValidIndices(ranges) = {})
        /\ (Done => ((short_stay_check = "no valid stays") = (ValidIndices(ranges) = {})))

\* Only one-day ranges are valid, and one range is invalid.
C5_Witness ==
    /\ Done
    /\ longest_single_stay = 1
    /\ ValidIndices(ranges) # DOMAIN ranges

\* C6: with a valid range, window_start is D[i*] for the smallest index i*
\* whose widest admissible window has max_days_365 days, and window_end is
\* D[i* + max_days_365 - 1]; a one-day range alone gives that day twice; with
\* no valid range both stay unset.
C6_FirstMaximumWins ==
    Done =>
        IF ValidIndices(ranges) = {}
        THEN window_start = <<>> /\ window_end = <<>>
        ELSE /\ \E istar \in 0..(Len(all_days) - 1) :
                  /\ WidestFrom(all_days, istar) = max_days_365
                  /\ \A ii \in 0..(istar - 1) :
                        WidestFrom(all_days, ii) # max_days_365
                  /\ window_start = <<all_days[istar + 1]>>
                  /\ window_end = <<all_days[(istar + max_days_365 - 1) + 1]>>
             /\ (Len(ranges) = 1 /\ ranges[1][1] = ranges[1][2] =>
                    window_start = <<ranges[1][1]>> /\ window_end = <<ranges[1][1]>>)

\* A later window is as large as the reported one.
C6_Witness ==
    /\ Done
    /\ window_start # <<>>
    /\ \E ii \in 1..(Len(all_days) - 1) :
          /\ all_days[ii + 1] > window_start[1]
          /\ WidestFrom(all_days, ii) = max_days_365

\* C7: replacing a valid range's end by end + 1 day never decreases
\* total_days, longest_single_stay or max_days_365.
C7_Monotone ==
    Done =>
        \A k \in ValidIndices(ranges) :
            \A r \in {Run(ExtendEnd(ranges, k), target_year)} :
                /\ r.total_days >= total_days
                /\ r.longest_single_stay >= longest_single_stay
                /\ r.max_days_365 >= max_days_365

\* Extending a range raises all three.
C7_Witness ==
    /\ Done
    /\ \E k \in ValidIndices(ranges) :
          \E r \in {Run(ExtendEnd(ranges, k), target_year)} :
              /\ r.total_days > total_days
              /\ r.longest_single_stay > longest_single_stay
              /\ r.max_days_365 > max_days_365

\* C8: every permutation of the list of ranges gives the same total_days,
\* longest_single_stay, max_days_365, window_start and window_end.
C8_OrderInvariant ==
    Done =>
        \A p \in Permutations(Len(ranges)) :
            \A r \in {Run(Permuted(ranges, p), target_year)} :
                /\ r.total_days = total_days
                /\ r.longest_single_stay = longest_single_stay
                /\ r.max_days_365 = max_days_365
                /\ r.window_start = window_start
                /\ r.window_end = window_end

\* Two different valid ranges of different lengths, the later one first.
C8_Witness ==
    /\ Done
    /\ Len(ranges) = 2
    /\ Valid(ranges[1]) /\ Valid(ranges[2])
    /\ ranges[2][1] < ranges[1][1]
    /\ trip_data[1].StayLength < trip_data[2].StayLength

\* C9: all_days is strictly increasing and holds exactly the days covered
\* by a valid range, and a valid range R together with valid ranges it
\* contains gives the max_days_365 of R alone.
C9_OverlapCountedOnce ==
    Done =>
        /\ StrictlyIncreasing(all_days)
        /\ SetOf(all_days) = Covered(ranges)
        /\ \A k \in ValidIndices(ranges) :
              (\A m \in ValidIndices(ranges) :
                    ranges[k][1] <= ranges[m][1] /\ ranges[m][2] <= ranges[k][2])
                => max_days_365 = Run(<<ranges[k]>>, target_year).max_days_365

\* The same range of several days twice.
C9_Witness ==
    /\ Done
    /\ Len(ranges) = 2
    /\ ranges[1] = ranges[2]
    /\ ranges[1][1] < ranges[1][2]

InScan == pc \in {"outer", "inner"}

\* A bound on the loop tests the scan has still to make.
StepsLeft == 2 * (n - i) + (n - j) + (IF pc = "outer" THEN 1 ELSE 0)

\* What C10 says of the recorded best.
BestIsAWindow ==
    /\ 0 <= max_i /\ max_i <= max_j /\ max_j < n
    /\ max_days_365 = (max_j - max_i) + 1
    /\ all_days[max_j + 1] - all_days[max_i + 1] <= SpanDays - 1

\* C10 as stated: at every step of the outer loop i <= j <= n and the
\* recorded best is a window of max_days_365 days.
C10_AsStated ==
    InScan => (i <= j /\ j <= n /\ BestIsAWindow)

\* C10, amended: during the scan i <= j <= n and j never decreases; once the
\* first outer step has ended (i >= 1) the recorded best is a window of
\* max_days_365 days, and before that max_days_365 = 0 with max_i = max_j =
\* 0; every step of the scan lowers StepsLeft, which is never negative, so
\* the scan ends, and it ends with i = n, 1 <= max_days_365 <= 365, and a
\* reported window of at most 365 calendar days that holds max_days_365
\* covered days.
C10_ScanInvariant ==
    /\ [](InScan =>
            /\ n = Len(all_days) /\ n > 0
            /\ i <= j /\ j <= n
            /\ (pc = "inner" => i < n)
            /\ StepsLeft >= 0
            /\ (i >= 1 => BestIsAWindow)
            /\ (i = 0 => max_days_365 = 0 /\ max_i = 0 /\ max_j = 0))
    /\ [][InScan /\ InScan' => j' >= j /\ StepsLeft' < StepsLeft]_vars
    /\ [](pc \in {"checks", "done"} /\ valid_intervals # <<>> =>
            /\ i = n
            /\ 1 <= max_days_365 /\ max_days_365 <= SpanDays
            /\ (window_end[1] - window_start[1]) + 1 <= SpanDays
            /\ Cardinality(SetOf(all_days) \cap (window_start[1]..window_end[1]))
                    = max_days_365)

\* The scan has ended on more than 365 covered days.
C10_Witness ==
    /\ pc = "done"
    /\ n > SpanDays
    /\ max_days_365 = SpanDays
    /\ i = n

=============================================================================
